---- MODULE Spec2Model ----
(***************************************************************************)
(* Model of HDF5_Browser.py: the interactive HDF5 browser loop             *)
(* (browse_hdf5), its helpers (print_ls, print_dataset, print_attrs) and   *)
(* the program entry point.  Text is modelled as sequences of one-char     *)
(* strings so that strip / split / lower / join and the path lookups of    *)
(* h5py groups are computed, not assumed.                                  *)
(***************************************************************************)
EXTENDS Integers, Sequences, FiniteSets, TLC

(***************************************************************************)
(* Text helpers (Python str methods used by the loop)                      *)
(***************************************************************************)

UpperChars == <<"A","B","C","D","E","F","G","H","I","J","K","L","M",
                "N","O","P","Q","R","S","T","U","V","W","X","Y","Z">>

LowerChars == <<"a","b","c","d","e","f","g","h","i","j","k","l","m",
                "n","o","p","q","r","s","t","u","v","w","x","y","z">>

\* code-point order of the characters the model uses (str comparison)
CharOrder == <<"\t", " ", ".", "/">> \o UpperChars \o LowerChars

Ord(c) == CHOOSE i \in 1..Len(CharOrder) : CharOrder[i] = c

\* str.lower() on one character
LowerChar(c) ==
    IF \E i \in 1..Len(UpperChars) : UpperChars[i] = c
    THEN LowerChars[CHOOSE i \in 1..Len(UpperChars) : UpperChars[i] = c]
    ELSE c

\* str.lower()
Lower(s) == [i \in 1..Len(s) |-> LowerChar(s[i])]

\* only the blank counts as whitespace
IsSpace_OnlyBlank(c) == c = " "

\* the characters str.strip() and str.split() take for whitespace
IsSpace(c) == c \in {" ", "\t"}

RECURSIVE LStrip(_)
LStrip(s) == IF s # <<>> /\ IsSpace(Head(s)) THEN LStrip(Tail(s)) ELSE s

RECURSIVE RStrip(_)
RStrip(s) ==
    IF s # <<>> /\ IsSpace(s[Len(s)]) THEN RStrip(SubSeq(s, 1, Len(s) - 1)) ELSE s

\* str.strip()
Strip(s) == RStrip(LStrip(s))

\* str.split(): split on runs of whitespace, no empty words
RECURSIVE SplitWords(_, _, _)
SplitWords(s, word, acc) ==
    IF s = <<>>
    THEN IF word = <<>> THEN acc ELSE Append(acc, word)
    ELSE IF IsSpace(Head(s))
         THEN SplitWords(Tail(s), <<>>, IF word = <<>> THEN acc ELSE Append(acc, word))
         ELSE SplitWords(Tail(s), Append(word, Head(s)), acc)

Split(s) == SplitWords(s, <<>>, <<>>)

\* " ".join(words)
RECURSIVE Join(_)
Join(words) ==
    IF words = <<>> THEN <<>>
    ELSE IF Len(words) = 1 THEN words[1]
    ELSE words[1] \o <<" ">> \o Join(Tail(words))

\* str.split('/'): empty parts are kept
RECURSIVE SplitSlashAcc(_, _, _)
SplitSlashAcc(s, part, acc) ==
    IF s = <<>> THEN Append(acc, part)
    ELSE IF Head(s) = "/"
         THEN SplitSlashAcc(Tail(s), <<>>, Append(acc, part))
         ELSE SplitSlashAcc(Tail(s), Append(part, Head(s)), acc)

SplitSlash(s) == SplitSlashAcc(s, <<>>, <<>>)

\* s1 < s2 in Python's str ordering
RECURSIVE StrLess(_, _)
StrLess(s1, s2) ==
    IF s2 = <<>> THEN FALSE
    ELSE IF s1 = <<>> THEN TRUE
    ELSE IF Head(s1) = Head(s2) THEN StrLess(Tail(s1), Tail(s2))
    ELSE Ord(Head(s1)) < Ord(Head(s2))

RECURSIVE InsertSorted(_, _)
InsertSorted(x, sorted) ==
    IF sorted = <<>> THEN <<x>>
    ELSE IF StrLess(Head(sorted), x) THEN <<Head(sorted)>> \o InsertSorted(x, Tail(sorted))
    ELSE <<x>> \o sorted

\* the list left in the order of arrival
SortedList_Unsorted(list) == list

\* sorted(list)
RECURSIVE SortedList(_)
SortedList(list) ==
    IF list = <<>> THEN <<>> ELSE InsertSorted(Head(list), SortedList(Tail(list)))

(***************************************************************************)
(* The storage: containers the browser can be pointed at.  A node is the   *)
(* sequence of link names from the root; the root is <<>>.                 *)
(***************************************************************************)

nA  == <<"a">>
nB  == <<"b">>
nD  == <<"d">>
nE  == <<"e">>
nX  == <<"x">>
nXY == <<"x", " ", "y">>

Root == <<>>

\* what h5py.File(filepath, 'r') finds: a hierarchy, or nothing that opens
Storage(path) ==
    CASE path = "sample.h5" ->
           [opens    |-> TRUE,
            groups   |-> {Root, <<nA>>, <<nA, nB>>, <<nXY>>},
            datasets |-> {<<nD>>, <<nX>>, <<nA, nD>>, <<nA, nB, nE>>},
            attrs    |-> {<<nA>>, <<nD>>, <<nA, nB, nE>>},
            shape    |-> (<<nD>> :> <<101>>) @@ (<<nX>> :> <<10, 10>>)
                         @@ (<<nA, nD>> :> <<5, 201>>)
                         @@ (<<nA, nB, nE>> :> <<11, 11>>)]
      [] path = "empty.h5" ->
           [opens |-> TRUE, groups |-> {Root}, datasets |-> {}, attrs |-> {},
            shape |-> <<>>]
      [] OTHER ->
           [opens |-> FALSE, groups |-> {}, datasets |-> {}, attrs |-> {},
            shape |-> <<>>]

FilePaths == {"sample.h5", "empty.h5", "missing.h5"}

Nodes(file) == file.groups \cup file.datasets

\* isinstance(item, h5py.Group) / isinstance(item, h5py.Dataset)
IsGroup(file, node) == node \in file.groups

IsDataset(file, node) == node \in file.datasets

\* names yielded by group.items()
ChildNames(file, group) ==
    {n[Len(n)] : n \in {m \in Nodes(file) :
        Len(m) = Len(group) + 1 /\ SubSeq(m, 1, Len(group)) = group}}

\* the children that are datasets
DatasetNames(file, group) ==
    {n \in ChildNames(file, group) : IsDataset(file, Append(group, n))}

\* bool(item.attrs): whether the node carries attributes
HasAttrs(file, node) == node \in file.attrs

\* item.name: "/" for the root, else "/"-joined link names
RECURSIVE NameOf(_)
NameOf(node) ==
    IF node = Root THEN <<"/">>
    ELSE IF Len(node) = 1 THEN <<"/">> \o node[1]
    ELSE NameOf(SubSeq(node, 1, Len(node) - 1)) \o <<"/">> \o node[Len(node)]

\* group.parent
ParentOf(node) == SubSeq(node, 1, Len(node) - 1)

\* h5py walks a path link by link: "." stays, every link must exist, and
\* every link but the last must lead to a group
RECURSIVE WalkValid(_, _, _)
WalkValid(file, loc, parts) ==
    IF parts = <<>> THEN TRUE
    ELSE IF Head(parts) = <<".">> THEN WalkValid(file, loc, Tail(parts))
    ELSE IF Append(loc, Head(parts)) \notin Nodes(file) THEN FALSE
    ELSE IF Len(parts) = 1 THEN TRUE
    ELSE IF ~IsGroup(file, Append(loc, Head(parts))) THEN FALSE
    ELSE WalkValid(file, Append(loc, Head(parts)), Tail(parts))

RECURSIVE WalkTo(_, _)
WalkTo(loc, parts) ==
    IF parts = <<>> THEN loc
    ELSE IF Head(parts) = <<".">> THEN WalkTo(loc, Tail(parts))
    ELSE WalkTo(Append(loc, Head(parts)), Tail(parts))

\* the links of a path: empty parts (duplicate, leading, trailing "/") dropped
Links(path) == SelectSeq(SplitSlash(path), LAMBDA p : p # <<>>)

\* a path that begins with "/" is resolved from the root
StartOf(group, path) == IF Head(SplitSlash(path)) = <<>> THEN Root ELSE group

\* `path in group`
Contains(file, group, path) ==
    /\ path # <<>>
    /\ WalkValid(file, StartOf(group, path), Links(path))

\* `group[path]`, for a path the group contains
GetItem(group, path) == WalkTo(StartOf(group, path), Links(path))

(***************************************************************************)
(* Input lines the interactive line source can yield                       *)
(***************************************************************************)

SP == <<" ">>

wCd    == <<"c", "d">>
wCat   == <<"c", "a", "t">>
wView  == <<"v", "i", "e", "w">>
wAttrs == <<"a", "t", "t", "r", "s">>
wLs    == <<"l", "s">>
wPwd   == <<"p", "w", "d">>
wHelp  == <<"h", "e", "l", "p">>
wExit  == <<"e", "x", "i", "t">>
wQuit  == <<"q", "u", "i", "t">>
wQ     == <<"q">>
wDir   == <<"d", "i", "r">>

DotDot == <<".", ".">>
Slash  == <<"/">>

\* targets typed after cd
CdArgs ==
    { DotDot, Slash, nA, nB, nD, nX, <<"A">>, <<"z">>, <<".">>,
      <<"a", "/", "b">>, <<"/", "a">>, <<"a", "/", "d">>, <<"d", "/", "x">>,
      nXY, <<"x", " ", " ", "y">> }

\* names typed after cat
CatArgs ==
    { nD, nA, nX, nE, <<"D">>, <<"z">>, <<"a", "/", "d">>, <<"a", "/", "b">>, nXY }

\* names typed after attrs
AttrsArgs == { nA, nD, nB, <<"z">>, nXY, <<"a", "/", "b">> }

Lines ==
    { <<>>, <<" ", "\t", " ">> }
    \cup { wExit, wQuit, wQ, <<"Q", "u", "i", "t">>, wExit \o SP \o nA }
    \cup { wHelp, <<"H", "e", "l", "p">>, wLs, <<"L", "S">> \o SP \o nA,
           wPwd, wDir, <<"c", "d", "a">> }
    \cup { wCd, <<"\t">> \o <<"C", "D">> \o SP \o nA \o SP }
    \cup { wCd \o SP \o a : a \in CdArgs }
    \cup { wCat, wView \o SP \o nD }
    \cup { wCat \o SP \o a : a \in CatArgs }
    \cup { wAttrs, <<"A", "t", "t", "r", "s">> }
    \cup { wAttrs \o SP \o a : a \in AttrsArgs }

(***************************************************************************)
(* Program state                                                           *)
(***************************************************************************)

VARIABLES
    pc,             \* where the program is: "main", "loop", "returned", "raised", "exit"
    filepath,       \* argument of browse_hdf5
    f,              \* the h5py.File handle: "unopened", "open", "closed"
    current_group,  \* the group the loop is in (a node)
    prompt,         \* the location name shown in the last prompt
    command_line,   \* the last stripped input line
    outcome,        \* the last message printed
    report,         \* what the last listing / preview / attribute table showed
    exc,            \* exception leaving browse_hdf5: "none", "Exception", "KeyboardInterrupt"
    trail,          \* targets of the successful cd commands since the location was last set to the root
    tracked         \* whether trail is complete (it is cut at MaxTrail)

vars == <<pc, filepath, f, current_group, prompt, command_line, outcome,
          report, exc, trail, tracked>>

\* longest cd history kept in trail
MaxTrail == 2

NoReport == [kind |-> "none"]

\* current_group before the container is opened: not a node of any container
NoGroup == << <<"?">> >>

File == Storage(filepath)

\* the session of the command loop
Session ==
    IF pc = "main" THEN "NOT_STARTED"
    ELSE IF pc = "loop" THEN "ACTIVE"
    ELSE "TERMINATED"

Init ==
    /\ pc = "main"
    /\ filepath \in FilePaths
    /\ f = "unopened"
    /\ current_group = NoGroup
    /\ prompt = <<>>
    /\ command_line = <<>>
    /\ outcome = "none"
    /\ report = NoReport
    /\ exc = "none"
    /\ trail = <<>>
    /\ tracked = TRUE

(***************************************************************************)
(* print_ls, print_dataset, print_attrs                                    *)
(***************************************************************************)

\* the orders in which group.items() may yield the children
Orders(names) ==
    {o \in [1..Cardinality(names) -> names] :
        \A i, j \in 1..Cardinality(names) : o[i] = o[j] => i = j}

\* print_ls: `order` is the iteration order of the store, `failing` the
\* datasets whose shape / dtype cannot be read
PrintLs(file, group, order, failing) ==
    LET groups   == SelectSeq(order, LAMBDA n : IsGroup(file, Append(group, n)))
        datasets == SelectSeq(order, LAMBDA n : IsDataset(file, Append(group, n)))
    IN  IF groups = <<>> /\ datasets = <<>>
        THEN [kind |-> "ls", title |-> NameOf(group), empty |-> TRUE,
              groups |-> <<>>, datasets |-> <<>>]
        ELSE [kind |-> "ls", title |-> NameOf(group), empty |-> FALSE,
              groups |-> SortedList(groups),
              datasets |-> [i \in 1..Len(datasets) |->
                  [name |-> SortedList(datasets)[i],
                   readable |-> SortedList(datasets)[i] \notin failing]]]

\* how the data block of print_dataset ends, given how dataset[()] behaves:
\* read is "ok", "TypeError" or "Exception"; fallback is "ok" or "raises"
DataBlock(read, fallback) ==
    IF read = "ok" THEN [data |-> "summarized", raised |-> FALSE]
    ELSE IF read = "TypeError"
         THEN IF fallback = "ok"
              THEN [data |-> "raw", raised |-> FALSE]
              ELSE [data |-> "raw_failed", raised |-> TRUE]
    ELSE [data |-> "unavailable", raised |-> FALSE]

\* dataset.shape, () where the store records none
ShapeOf(file, node) ==
    IF node \in DOMAIN file.shape THEN file.shape[node] ELSE <<>>

\* dataset.size: the number of elements of an array of that shape
RECURSIVE Size(_)
Size(shape) == IF shape = <<>> THEN 1 ELSE Head(shape) * Size(Tail(shape))

\* np.printoptions(threshold=100, edgeitems=10)
Threshold == 100

EdgeItems == 10

\* the print options in force outside the with block: numpy's own
DefaultThreshold == 1000

DefaultEdgeItems == 3

\* print(array) under the options threshold / edgeitems: an array of more
\* than threshold elements is summarized, and then an axis longer than twice
\* edgeitems shows its first and last edgeitems indices around a "..."
Render(shape, threshold, edgeitems) ==
    [i \in 1..Len(shape) |->
        IF Size(shape) > threshold /\ shape[i] > 2 * edgeitems
        THEN [shown  |-> (1..edgeitems) \cup ((shape[i] - edgeitems + 1)..shape[i]),
              marker |-> TRUE]
        ELSE [shown |-> 1..shape[i], marker |-> FALSE]]

\* print(data) without the with block
PreviewRender_NoOptions(shape) == Render(shape, DefaultThreshold, DefaultEdgeItems)

\* print(data) inside np.printoptions(threshold=100, edgeitems=10)
PreviewRender(shape) == Render(shape, Threshold, EdgeItems)

\* print(dataset[()]) of the TypeError handler, outside the with block
FallbackRender(shape) == Render(shape, DefaultThreshold, DefaultEdgeItems)

\* print_dataset: meta tells whether reading the header fields or the
\* attributes raises
PrintDataset(file, node, meta, read, fallback) ==
    IF meta
    THEN [kind |-> "dataset", title |-> NameOf(node), header |-> FALSE, attrs |-> FALSE,
          data |-> "not_reached", rendering |-> <<>>, closing |-> FALSE,
          raised |-> TRUE]
    ELSE [kind |-> "dataset", title |-> NameOf(node), header |-> TRUE,
          attrs |-> HasAttrs(file, node),
          data |-> DataBlock(read, fallback).data,
          rendering |-> IF DataBlock(read, fallback).data = "summarized"
                        THEN PreviewRender(ShapeOf(file, node))
                        ELSE IF DataBlock(read, fallback).data = "raw"
                        THEN FallbackRender(ShapeOf(file, node))
                        ELSE <<>>,
          closing |-> ~DataBlock(read, fallback).raised,
          raised |-> DataBlock(read, fallback).raised]

\* print_attrs without the test for an empty attribute table
PrintAttrs_NoEmptyLabel(file, group, item_name, fault) ==
    IF item_name # <<>> /\ ~Contains(file, group, item_name)
    THEN [kind |-> "attrs", msg |-> "attrs_not_found", title |-> <<>>,
          table |-> FALSE, raised |-> FALSE]
    ELSE LET target_item == IF item_name # <<>> THEN GetItem(group, item_name) ELSE group
         IN  IF fault
             THEN [kind |-> "attrs", msg |-> "aborted", title |-> NameOf(target_item),
                   table |-> FALSE, raised |-> TRUE]
             ELSE [kind |-> "attrs", msg |-> "attrs_table", title |-> NameOf(target_item),
                   table |-> TRUE, raised |-> FALSE]

\* print_attrs: item_name is <<>> for None; fault tells whether reading the
\* attribute table raises
PrintAttrs(file, group, item_name, fault) ==
    IF item_name # <<>> /\ ~Contains(file, group, item_name)
    THEN [kind |-> "attrs", msg |-> "attrs_not_found", title |-> <<>>,
          table |-> FALSE, raised |-> FALSE]
    ELSE LET target_item == IF item_name # <<>> THEN GetItem(group, item_name) ELSE group
         IN  IF fault
             THEN [kind |-> "attrs", msg |-> "aborted", title |-> NameOf(target_item),
                   table |-> FALSE, raised |-> TRUE]
             ELSE IF ~HasAttrs(file, target_item)
             THEN [kind |-> "attrs", msg |-> "attrs_none", title |-> NameOf(target_item),
                   table |-> FALSE, raised |-> FALSE]
             ELSE [kind |-> "attrs", msg |-> "attrs_table", title |-> NameOf(target_item),
                   table |-> TRUE, raised |-> FALSE]

(***************************************************************************)
(* cd: where the location goes and what is printed                         *)
(***************************************************************************)

\* cd ..: at the root a message and no change, else the parent
CdUp_NoRootCheck(group) == [group |-> ParentOf(group), msg |-> "silent"]

CdUp_ToRoot(group) ==
    IF NameOf(group) = Slash
    THEN [group |-> group, msg |-> "at_root"]
    ELSE [group |-> Root, msg |-> "silent"]

CdUp(group) ==
    IF NameOf(group) = Slash
    THEN [group |-> group, msg |-> "at_root"]
    ELSE [group |-> ParentOf(group), msg |-> "silent"]

\* cd /: current_group = f['/']
CdRoot_Stay(group) == [group |-> group, msg |-> "silent"]

CdRoot(group) == [group |-> Root, msg |-> "silent"]

\* cd <target>: the looked-up item becomes the location only when it is a group
CdInto_NoKindCheck(file, group, target) ==
    IF Contains(file, group, target)
    THEN [group |-> GetItem(group, target), msg |-> "silent"]
    ELSE [group |-> group, msg |-> "cd_not_found"]

CdInto_RootOnMiss(file, group, target) ==
    IF Contains(file, group, target)
    THEN IF IsGroup(file, GetItem(group, target))
         THEN [group |-> GetItem(group, target), msg |-> "silent"]
         ELSE [group |-> group, msg |-> "cd_not_group"]
    ELSE [group |-> Root, msg |-> "cd_not_found"]

CdInto_AssignBeforeCheck(file, group, target) ==
    IF Contains(file, group, target)
    THEN [group |-> GetItem(group, target),
          msg |-> IF IsGroup(file, GetItem(group, target)) THEN "silent" ELSE "cd_not_group"]
    ELSE [group |-> group, msg |-> "cd_not_found"]

CdInto_IgnoreCase(file, group, target) ==
    IF Contains(file, group, Lower(target))
    THEN IF IsGroup(file, GetItem(group, Lower(target)))
         THEN [group |-> GetItem(group, Lower(target)), msg |-> "silent"]
         ELSE [group |-> group, msg |-> "cd_not_group"]
    ELSE [group |-> group, msg |-> "cd_not_found"]

CdInto(file, group, target) ==
    IF Contains(file, group, target)
    THEN IF IsGroup(file, GetItem(group, target))
         THEN [group |-> GetItem(group, target), msg |-> "silent"]
         ELSE [group |-> group, msg |-> "cd_not_group"]
    ELSE [group |-> group, msg |-> "cd_not_found"]

\* cd with the rejoined target: the location it leaves and the message it
\* prints ("silent" when it prints nothing, which is when it assigns)
ChangeDirectory(file, group, target) ==
    IF target = DotDot THEN CdUp(group)
    ELSE IF target = Slash THEN CdRoot(group)
    ELSE CdInto(file, group, target)

\* the location after replaying cd with each of `targets` in turn
RECURSIVE Replay(_, _, _)
Replay(file, group, targets) ==
    IF targets = <<>> THEN group
    ELSE Replay(file, ChangeDirectory(file, group, Head(targets)).group, Tail(targets))

\* whether every cd of the replay succeeds
RECURSIVE ReplaySucceeds(_, _, _)
ReplaySucceeds(file, group, targets) ==
    IF targets = <<>> THEN TRUE
    ELSE /\ ChangeDirectory(file, group, Head(targets)).msg = "silent"
         /\ ReplaySucceeds(file, ChangeDirectory(file, group, Head(targets)).group,
                           Tail(targets))

\* the message cat prints, or "preview" when print_dataset runs
CatMessage_NoKindCheck(file, group, dataset_name) ==
    IF Contains(file, group, dataset_name) THEN "preview" ELSE "cat_not_found"

CatMessage(file, group, dataset_name) ==
    IF Contains(file, group, dataset_name)
    THEN IF IsDataset(file, GetItem(group, dataset_name)) THEN "preview" ELSE "cat_is_group"
    ELSE "cat_not_found"

\* item_name = args[0] if args else None
AttrsItemName(argv) == IF argv # <<>> THEN argv[1] ELSE <<>>

ExitVerbs == {wExit, wQuit, wQ}

KnownVerbs == ExitVerbs \cup {wHelp, wLs, wPwd, wCd, wCat, wView, wAttrs}

(***************************************************************************)
(* Steps of the program                                                    *)
(***************************************************************************)

\* the open error is reported and the loop is entered all the same
Open_NoReturn ==
    /\ pc = "main"
    /\ IF File.opens
       THEN /\ f' = "open"
            /\ current_group' = Root
            /\ outcome' = "opened"
            /\ pc' = "loop"
       ELSE /\ outcome' = "open_error"
            /\ pc' = "loop"
            /\ UNCHANGED <<f, current_group>>
    /\ UNCHANGED <<filepath, prompt, command_line, report, exc, trail, tracked>>

\* browse_hdf5 opens the container, or reports and returns
Open ==
    /\ pc = "main"
    /\ IF File.opens
       THEN /\ f' = "open"
            /\ current_group' = Root
            /\ outcome' = "opened"
            /\ pc' = "loop"
       ELSE /\ outcome' = "open_error"
            /\ pc' = "returned"
            /\ UNCHANGED <<f, current_group>>
    /\ UNCHANGED <<filepath, prompt, command_line, report, exc, trail, tracked>>

\* the loop is left by break: f.close() runs and browse_hdf5 returns
Break(msg) ==
    /\ outcome' = msg
    /\ f' = "closed"
    /\ pc' = "returned"
    /\ report' = NoReport
    /\ UNCHANGED <<filepath, current_group, exc, trail, tracked>>

\* an exception leaves the loop and browse_hdf5: f.close() is not reached
Raise(kind) ==
    /\ pc' = "raised"
    /\ exc' = kind
    /\ outcome' = "aborted"
    /\ UNCHANGED <<filepath, f, current_group, trail, tracked>>

\* the command is done and the loop prompts again
Continue ==
    /\ pc' = "loop"
    /\ UNCHANGED <<filepath, f, exc>>

\* cmd = parts[0].lower() of a stripped line
Cmd(stripped) == Lower(Head(Split(stripped)))

\* args = parts[1:] of a stripped line
Args(stripped) == Tail(Split(stripped))

\* the loop builds the prompt from the current location
Prompt == pc = "loop" /\ prompt' = NameOf(current_group)

\* what the loop makes of a line returned by input()
Parsed(line) ==
    [command_line |-> Strip(line),
     cmd  |-> IF Strip(line) = <<>> THEN <<>> ELSE Cmd(Strip(line)),
     args |-> IF Strip(line) = <<>> THEN <<>> ELSE Args(Strip(line))]

Inputs == {Parsed(line) : line \in Lines}

\* input() returned a line with words: it is dispatched on its verb
Parse(in) ==
    /\ Prompt
    /\ in.command_line # <<>>
    /\ command_line' = in.command_line

\* input() raises EOFError
ReadEOF ==
    /\ Prompt
    /\ Break("eof")
    /\ UNCHANGED command_line

\* input() raises KeyboardInterrupt
ReadInterrupt ==
    /\ Prompt
    /\ Break("interrupt")
    /\ UNCHANGED command_line

\* an empty or blank line: continue without dispatching
BlankLine ==
    \E in \in Inputs :
        /\ Prompt
        /\ in.command_line = <<>>
        /\ command_line' = in.command_line
        /\ outcome' = "silent"
        /\ report' = NoReport
        /\ Continue
        /\ UNCHANGED <<current_group, trail, tracked>>

CmdExit ==
    \E in \in Inputs :
        /\ Parse(in)
        /\ in.cmd \in ExitVerbs
        /\ Break("bye")

CmdHelp ==
    \E in \in Inputs :
        /\ Parse(in)
        /\ in.cmd = wHelp
        /\ outcome' = "help"
        /\ report' = NoReport
        /\ Continue
        /\ UNCHANGED <<current_group, trail, tracked>>

\* ls: a dataset whose shape or dtype cannot be read is still listed
CmdLs ==
    \E in \in Inputs :
        /\ Parse(in)
        /\ in.cmd = wLs
        /\ \E order \in Orders(ChildNames(File, current_group)),
              failing \in SUBSET DatasetNames(File, current_group) :
               report' = PrintLs(File, current_group, order, failing)
        /\ outcome' = "ls"
        /\ Continue
        /\ UNCHANGED <<current_group, trail, tracked>>

CmdPwd ==
    \E in \in Inputs :
        /\ Parse(in)
        /\ in.cmd = wPwd
        /\ outcome' = "pwd"
        /\ report' = [kind |-> "pwd", title |-> NameOf(current_group)]
        /\ Continue
        /\ UNCHANGED <<current_group, trail, tracked>>

\* cd never asks for its argument
CdUsage_Never(argv) == FALSE

\* `if not args` of cd
CdUsage(argv) == argv = <<>>

\* `if not args` of cat / view
CatUsage(argv) == argv = <<>>

CmdCd ==
    \E in \in Inputs :
        /\ Parse(in)
        /\ in.cmd = wCd
        /\ report' = NoReport
        /\ Continue
        /\ IF CdUsage(in.args)
           THEN /\ outcome' = "cd_usage"
                /\ UNCHANGED <<current_group, trail, tracked>>
           ELSE LET target_path == Join(in.args)
                    done == ChangeDirectory(File, current_group, target_path)
                IN
                /\ outcome' = done.msg
                /\ current_group' = done.group
                /\ IF done.msg # "silent"
                   THEN UNCHANGED <<trail, tracked>>
                   ELSE IF target_path = Slash
                   THEN trail' = <<>> /\ tracked' = TRUE
                   ELSE IF tracked /\ Len(trail) < MaxTrail
                   THEN trail' = Append(trail, target_path) /\ tracked' = TRUE
                   ELSE trail' = <<>> /\ tracked' = FALSE

\* cat / view: print_dataset may raise out of the loop
CmdCat ==
    \E in \in Inputs :
        /\ Parse(in)
        /\ in.cmd \in {wCat, wView}
        /\ IF CatUsage(in.args)
           THEN /\ outcome' = "cat_usage"
                /\ report' = NoReport
                /\ Continue
                /\ UNCHANGED <<current_group, trail, tracked>>
           ELSE LET dataset_name == Join(in.args)
                    msg == CatMessage(File, current_group, dataset_name)
                IN  IF msg # "preview"
                    THEN /\ outcome' = msg
                         /\ report' = NoReport
                         /\ Continue
                         /\ UNCHANGED <<current_group, trail, tracked>>
                    ELSE \E meta \in BOOLEAN, read \in {"ok", "TypeError", "Exception"},
                            fallback \in {"ok", "raises"} :
                         LET shown == PrintDataset(File, GetItem(current_group, dataset_name),
                                                   meta, read, fallback)
                         IN  /\ report' = shown
                             /\ IF shown.raised
                                THEN Raise("Exception")
                                ELSE /\ outcome' = "preview"
                                     /\ Continue
                                     /\ UNCHANGED <<current_group, trail, tracked>>

\* attrs: print_attrs may raise out of the loop
CmdAttrs ==
    \E in \in Inputs :
        /\ Parse(in)
        /\ in.cmd = wAttrs
        /\ \E fault \in BOOLEAN :
           LET shown == PrintAttrs(File, current_group, AttrsItemName(in.args), fault) IN
           /\ report' = shown
           /\ IF shown.raised
              THEN Raise("Exception")
              ELSE /\ outcome' = shown.msg
                   /\ Continue
                   /\ UNCHANGED <<current_group, trail, tracked>>

CmdUnknown ==
    \E in \in Inputs :
        /\ Parse(in)
        /\ in.cmd \notin KnownVerbs
        /\ outcome' = "unknown"
        /\ report' = NoReport
        /\ Continue
        /\ UNCHANGED <<current_group, trail, tracked>>

\* KeyboardInterrupt arrives while a command other than exit runs: nothing
\* in the loop catches it
CommandInterrupted ==
    \E in \in Inputs :
        /\ Parse(in)
        /\ in.cmd \notin ExitVerbs
        /\ report' = NoReport
        /\ Raise("KeyboardInterrupt")

\* __main__: browse_hdf5 returned
MainReturn ==
    /\ pc = "returned"
    /\ pc' = "exit"
    /\ UNCHANGED <<filepath, f, current_group, prompt, command_line, outcome,
                   report, exc, trail, tracked>>

\* __main__: except Exception prints the error
MainExcept ==
    /\ pc = "raised"
    /\ exc = "Exception"
    /\ pc' = "exit"
    /\ outcome' = "main_error"
    /\ UNCHANGED <<filepath, f, current_group, prompt, command_line,
                   report, exc, trail, tracked>>

\* __main__: KeyboardInterrupt is no Exception, the interpreter prints a traceback
MainUncaught ==
    /\ pc = "raised"
    /\ exc = "KeyboardInterrupt"
    /\ pc' = "exit"
    /\ outcome' = "traceback"
    /\ UNCHANGED <<filepath, f, current_group, prompt, command_line,
                   report, exc, trail, tracked>>

Next ==
    \/ Open
    \/ ReadEOF
    \/ ReadInterrupt
    \/ BlankLine
    \/ CmdExit
    \/ CmdHelp
    \/ CmdLs
    \/ CmdPwd
    \/ CmdCd
    \/ CmdCat
    \/ CmdAttrs
    \/ CmdUnknown
    \/ CommandInterrupted
    \/ MainReturn
    \/ MainExcept
    \/ MainUncaught

Spec == Init /\ [][Next]_vars

(***************************************************************************)
(* Reading the last step off a state                                       *)
(***************************************************************************)

\* the location the last prompt showed, i.e. the location before the last command
Before ==
    IF \E n \in Nodes(File) : NameOf(n) = prompt
    THEN CHOOSE n \in Nodes(File) : NameOf(n) = prompt
    ELSE NoGroup

\* the last thing that happened is a command line with one of `verbs` that ran
\* without an interrupt arriving
JustRan(verbs) ==
    /\ command_line # <<>>
    /\ Cmd(command_line) \in verbs
    /\ outcome \notin {"eof", "interrupt", "main_error", "traceback"}
    /\ exc # "KeyboardInterrupt"

\* the rejoined argument of the last command line
LastTarget == Join(Args(command_line))

\* the last command was cd with an argument
JustRanCd == JustRan({wCd}) /\ Args(command_line) # <<>>

\* the last command was cat / view with an argument
JustRanCat == JustRan({wCat, wView}) /\ Args(command_line) # <<>>

Unchanged == NameOf(current_group) = prompt

HasSlash(text) == \E i \in 1..Len(text) : text[i] = "/"

\* the links a path names, "." left out
Hops(path) == SelectSeq(Links(path), LAMBDA p : p # <<".">>)

\* the children that are groups
GroupNames(file, group) ==
    {n \in ChildNames(file, group) : IsGroup(file, Append(group, n))}

(***************************************************************************)
(* C1: cd onto an immediate child that is a dataset reports                *)
(* "not a group", leaves the location as it was and the session ACTIVE.    *)
(***************************************************************************)
C1_CdOntoDataset ==
    (JustRanCd /\ LastTarget \in DatasetNames(File, Before))
        => /\ outcome = "cd_not_group"
           /\ Unchanged
           /\ current_group = Before
           /\ Session = "ACTIVE"

C1_Witness ==
    /\ JustRanCd
    /\ Before = <<nA>>
    /\ LastTarget = nD
    /\ outcome = "cd_not_group"
    /\ current_group = <<nA>>

C3_CdUp ==
    (JustRanCd /\ LastTarget = DotDot)
        => /\ Session = "ACTIVE"
           /\ IF Before = Root
              THEN current_group = Root /\ Unchanged /\ outcome = "at_root"
              ELSE /\ outcome = "silent"
                   /\ IsGroup(File, current_group)
                   /\ \E n \in ChildNames(File, current_group) :
                          Append(current_group, n) = Before

C3_Witness ==
    /\ JustRanCd
    /\ LastTarget = DotDot
    /\ Before = <<nA, nB>>
    /\ current_group = <<nA>>

C3_WitnessAtRoot ==
    /\ JustRanCd
    /\ LastTarget = DotDot
    /\ Before = Root
    /\ outcome = "at_root"

C4_WitnessSingle ==
    /\ JustRanCd
    /\ LastTarget = nXY
    /\ Before = Root
    /\ outcome = "silent"
    /\ current_group = <<nXY>>

(***************************************************************************)
(* C5: the location reached by successful cd commands since the location   *)
(* was last the root by cd / is the one the same targets reach when        *)
(* replayed from the root, each replayed cd succeeding again; and cd /     *)
(* always succeeds and makes the root the location, from wherever.         *)
(***************************************************************************)
C5_Replay ==
    /\ (pc = "loop" /\ tracked)
           => /\ ReplaySucceeds(File, Root, trail)
              /\ Replay(File, Root, trail) = current_group
    /\ (JustRanCd /\ LastTarget = Slash)
           => current_group = Root /\ outcome = "silent" /\ Session = "ACTIVE"

C5_Witness ==
    /\ pc = "loop"
    /\ tracked
    /\ trail = <<nA, nB>>
    /\ current_group = <<nA, nB>>

C5_WitnessRoot ==
    /\ JustRanCd
    /\ LastTarget = Slash
    /\ Before = <<nA, nB>>
    /\ current_group = Root
    /\ trail = <<>>

C6_WitnessNotFound ==
    /\ JustRanCat
    /\ LastTarget = <<"D">>
    /\ Before = Root
    /\ outcome = "cat_not_found"

(***************************************************************************)
(* C7 as stated: once the container was opened, whenever browse_hdf5 has   *)
(* been left (by return or by an exception) the handle is closed.          *)
(***************************************************************************)
C7_HandleClosed ==
    (pc \in {"returned", "raised", "exit"} /\ f # "unopened") => f = "closed"

(***************************************************************************)
(* C8 as stated: after any command other than exit / quit / q that ran     *)
(* without an interrupt, failure or not, the session is ACTIVE.            *)
(***************************************************************************)
C8_ErrorsKeepActive ==
    (command_line # <<>> /\ JustRan({Cmd(command_line)} \ ExitVerbs))
        => Session = "ACTIVE"

(***************************************************************************)
(* C9 as stated: once cat on a dataset has printed the header and          *)
(* attributes, whatever the data read does the preview ends with its       *)
(* closing line and nothing propagates out of it.                          *)
(***************************************************************************)
C9_PreviewCompletes ==
    (report.kind = "dataset" /\ report.header /\ exc # "KeyboardInterrupt")
        => report.closing /\ exc = "none"

(***************************************************************************)
(* C10 as stated: the session is TERMINATED only after exit / quit / q,    *)
(* end of input or an interrupt; any other line keeps it ACTIVE.           *)
(***************************************************************************)
C10_TerminationCauses ==
    (Session = "TERMINATED" /\ f # "unopened")
        => \/ outcome \in {"bye", "eof", "interrupt"}
           \/ exc = "KeyboardInterrupt"

(***************************************************************************)
(* C11: the location is the root when the session starts, and the only     *)
(* step after which it differs from the location the prompt showed is a cd *)
(* with an argument that succeeded: ls, pwd, help, cat / view, attrs, an   *)
(* unknown verb, a blank line and every failing cd leave it unchanged.     *)
(***************************************************************************)
C11_OnlyCdMoves ==
    /\ outcome = "opened" => current_group = Root
    /\ (prompt # <<>> /\ ~Unchanged)
           => /\ JustRanCd
              /\ outcome = "silent"
              /\ Session = "ACTIVE"
    /\ (command_line # <<>> /\ JustRan({Cmd(command_line)} \ {wCd}))
           => Unchanged

C11_Witness ==
    /\ JustRan({wAttrs})
    /\ LastTarget = nB
    /\ Before = <<nA>>
    /\ outcome = "attrs_none"
    /\ current_group = <<nA>>

(***************************************************************************)
(* C12: once the container is opened the location is always a group of the *)
(* opened hierarchy, never a dataset and never a node outside it.          *)
(***************************************************************************)
C12_LocationIsGroup ==
    f # "unopened" => IsGroup(File, current_group)

C12_Witness ==
    /\ pc = "loop"
    /\ JustRanCd
    /\ LastTarget = nB
    /\ Before = <<nA>>
    /\ current_group = <<nA, nB>>
    /\ IsGroup(File, current_group)

\* p joined with n, as a path name
PathJoin(p, n) == IF p = Slash THEN Slash \o n ELSE p \o Slash \o n

\* a name without separator that is neither ".." nor "."
PlainName(text) == ~HasSlash(text) /\ text \notin {DotDot, <<".">>}

\* the last link a path name names
LastLink(path) == Links(path)[Len(Links(path))]

(***************************************************************************)
(* C13: after a successful cd into the child named n from the location     *)
(* with path p, the path of the location (what pwd and the next prompt     *)
(* show) is p joined with n by "/", "/" + n at the root; cd .. from there  *)
(* leads back to the location with path p, so cd n then cd .. is a round   *)
(* trip.                                                                   *)
(***************************************************************************)
C13_PathRoundTrip ==
    /\ (JustRanCd /\ PlainName(LastTarget) /\ outcome = "silent")
           => NameOf(current_group) = PathJoin(prompt, LastTarget)
    /\ JustRan({wPwd}) => report.title = NameOf(current_group)
    /\ (JustRanCd /\ LastTarget = DotDot /\ prompt # Slash)
           => PathJoin(NameOf(current_group), LastLink(prompt)) = prompt
    /\ (pc = "loop" /\ tracked /\ Len(trail) >= 2
          /\ trail[Len(trail)] = DotDot /\ PlainName(trail[Len(trail) - 1]))
           => current_group = Replay(File, Root, SubSeq(trail, 1, Len(trail) - 2))

C13_Witness ==
    /\ pc = "loop"
    /\ tracked
    /\ trail = <<nXY, DotDot>>
    /\ prompt = Slash \o nXY
    /\ current_group = Root

C13_WitnessDown ==
    /\ JustRanCd
    /\ LastTarget = nB
    /\ prompt = Slash \o nA
    /\ NameOf(current_group) = <<"/", "a", "/", "b">>

(***************************************************************************)
(* C14: ls lists the group names and the dataset names as two sequences,   *)
(* each in strictly ascending order whatever the order in which the store  *)
(* yields the children; the two are disjoint and together hold every       *)
(* immediate child exactly once; "empty" is reported exactly when the      *)
(* group has no children.                                                  *)
(***************************************************************************)
C14_Listing ==
    report.kind = "ls"
        => LET gs == report.groups
               ds == [i \in 1..Len(report.datasets) |-> report.datasets[i].name]
           IN  /\ \A i \in 1..(Len(gs) - 1) : StrLess(gs[i], gs[i + 1])
               /\ \A i \in 1..(Len(ds) - 1) : StrLess(ds[i], ds[i + 1])
               /\ {gs[i] : i \in 1..Len(gs)} = GroupNames(File, current_group)
               /\ {ds[i] : i \in 1..Len(ds)} = DatasetNames(File, current_group)
               /\ {gs[i] : i \in 1..Len(gs)} \cap {ds[i] : i \in 1..Len(ds)} = {}
               /\ Len(gs) + Len(ds) = Cardinality(ChildNames(File, current_group))
               /\ report.empty <=> ChildNames(File, current_group) = {}
               /\ report.title = NameOf(current_group)

C14_Witness ==
    /\ report.kind = "ls"
    /\ current_group = Root
    /\ report.groups = <<nA, nXY>>
    /\ Len(report.datasets) = 2
    /\ report.datasets[1].name = nD
    /\ report.datasets[2].name = nX
    /\ ~report.datasets[2].readable

C14_WitnessEmpty ==
    /\ report.kind = "ls"
    /\ current_group = <<nXY>>
    /\ report.empty

(***************************************************************************)
(* C15: attrs given several argument words looks up the child named by     *)
(* the words rejoined with single spaces, as cd and cat do: the report is  *)
(* about that child, or not-found when the location has no such child.     *)
(***************************************************************************)
C15_AttrsRejoin ==
    (JustRan({wAttrs}) /\ Len(Args(command_line)) > 1 /\ report.kind = "attrs")
        => IF Contains(File, Before, LastTarget)
           THEN /\ report.msg # "attrs_not_found"
                /\ report.title = NameOf(GetItem(Before, LastTarget))
           ELSE report.msg = "attrs_not_found"

\* the dataset the last preview is about
Previewed == CHOOSE n \in File.datasets : NameOf(n) = report.title

\* the preview rendered data
Rendered == report.kind = "dataset" /\ report.data \in {"summarized", "raw"}

\* every index of every axis is rendered and no marker is printed
AllShown(shape, rendering) ==
    \A i \in 1..Len(shape) :
        rendering[i].shown = 1..shape[i] /\ ~rendering[i].marker

\* no axis renders anything but its first and last `edge` indices, and an
\* axis prints the marker exactly when it leaves indices out
Capped(shape, rendering, edge) ==
    \A i \in 1..Len(shape) :
        /\ rendering[i].shown \subseteq (1..edge) \cup ((shape[i] - edge + 1)..shape[i])
        /\ rendering[i].marker <=> rendering[i].shown # 1..shape[i]

(***************************************************************************)
(* C16 as stated: on every path that renders data, the fallback after a    *)
(* TypeError included, a dataset of at most 100 elements is rendered       *)
(* whole, and one of more than 100 elements renders at most 10 leading and *)
(* 10 trailing indices per axis, with the marker whenever some are left    *)
(* out.                                                                    *)
(***************************************************************************)
C16_Original ==
    Rendered
        => /\ Len(report.rendering) = Len(File.shape[Previewed])
           /\ IF Size(File.shape[Previewed]) <= 100
              THEN AllShown(File.shape[Previewed], report.rendering)
              ELSE Capped(File.shape[Previewed], report.rendering, 10)

(***************************************************************************)
(* C16 amended: the cap of 100 elements and 10 edge indices holds of the   *)
(* data printed by the try block; the fallback after a TypeError prints    *)
(* under the library's own options: whole up to 1000 elements, above that  *)
(* at most 3 leading and 3 trailing indices per axis. On both paths the    *)
(* marker is printed exactly on the axes that leave indices out.           *)
(***************************************************************************)
C16_PreviewBounded ==
    /\ (report.kind = "dataset" /\ report.data = "summarized")
           => /\ Len(report.rendering) = Len(File.shape[Previewed])
              /\ IF Size(File.shape[Previewed]) <= 100
                 THEN AllShown(File.shape[Previewed], report.rendering)
                 ELSE Capped(File.shape[Previewed], report.rendering, 10)
    /\ (report.kind = "dataset" /\ report.data = "raw")
           => /\ Len(report.rendering) = Len(File.shape[Previewed])
              /\ IF Size(File.shape[Previewed]) <= 1000
                 THEN AllShown(File.shape[Previewed], report.rendering)
                 ELSE Capped(File.shape[Previewed], report.rendering, 3)

C16_Witness ==
    /\ pc = "loop" /\ outcome = "preview"
    /\ report.kind = "dataset" /\ report.data = "summarized"
    /\ Previewed = <<nA, nD>>
    /\ report.rendering[1] = [shown |-> 1..5, marker |-> FALSE]
    /\ report.rendering[2] = [shown |-> (1..10) \cup (192..201), marker |-> TRUE]

C16_WitnessWhole ==
    /\ report.kind = "dataset" /\ report.data = "summarized"
    /\ Previewed = <<nX>>
    /\ AllShown(<<10, 10>>, report.rendering)

C16_WitnessFallback ==
    /\ report.kind = "dataset" /\ report.data = "raw"
    /\ Previewed = <<nA, nD>>
    /\ report.rendering[2] = [shown |-> {1, 2, 3, 199, 200, 201}, marker |-> TRUE]

C16_WitnessSquare ==
    /\ report.kind = "dataset" /\ report.data = "summarized"
    /\ Previewed = <<nA, nB, nE>>
    /\ AllShown(<<11, 11>>, report.rendering)

\* the name print_attrs is given by the last attrs line, <<>> for none
LastItemName == IF Args(command_line) = <<>> THEN <<>> ELSE Args(command_line)[1]

C17_WitnessPath ==
    /\ JustRan({wAttrs}) /\ LastItemName = <<"a", "/", "b">>
    /\ Before = Root
    /\ outcome = "attrs_none"
    /\ report.title = NameOf(<<nA, nB>>)

C17_WitnessNotFound ==
    /\ JustRan({wAttrs}) /\ LastItemName = <<"z">>
    /\ outcome = "attrs_not_found"
    /\ ~report.table

C17_WitnessTable ==
    /\ JustRan({wAttrs}) /\ LastItemName = nD
    /\ Before = Root
    /\ outcome = "attrs_table" /\ report.table

(***************************************************************************)
(* C18: when the container does not open, an open error is reported and    *)
(* the session never starts: the loop is not entered, no prompt is built,  *)
(* no command line is read, nothing is printed by a command, and the       *)
(* handle is neither opened nor closed.                                    *)
(***************************************************************************)
C18_OpenFailure ==
    ~File.opens
        => /\ pc \in {"main", "returned", "exit"}
           /\ Session # "ACTIVE"
           /\ pc # "main" => outcome = "open_error"
           /\ prompt = <<>>
           /\ command_line = <<>>
           /\ report = NoReport
           /\ current_group = NoGroup
           /\ f = "unopened"
           /\ exc = "none"

C18_Witness ==
    /\ pc = "exit"
    /\ filepath = "missing.h5"
    /\ ~File.opens
    /\ outcome = "open_error"
    /\ f = "unopened"

(***************************************************************************)
(* C19: cd without an argument, and cat / view without an argument,        *)
(* report a usage error, print nothing else, leave the location as it was  *)
(* and the session ACTIVE.                                                 *)
(***************************************************************************)
C19_Usage ==
    (JustRan({wCd, wCat, wView}) /\ Args(command_line) = <<>>)
        => /\ outcome = IF Cmd(command_line) = wCd THEN "cd_usage" ELSE "cat_usage"
           /\ report = NoReport
           /\ Unchanged
           /\ Session = "ACTIVE"
           /\ exc = "none"
           /\ f = "open"

C19_Witness ==
    /\ JustRan({wCd}) /\ Args(command_line) = <<>>
    /\ outcome = "cd_usage"
    /\ prompt = NameOf(<<nA>>)
    /\ current_group = <<nA>>
    /\ pc = "loop"

C19_WitnessCat ==
    /\ JustRan({wCat}) /\ Args(command_line) = <<>>
    /\ outcome = "cat_usage"
    /\ current_group = <<nA, nB>>
    /\ pc = "loop"

(***************************************************************************)
(* C20: a line that is empty or made of whitespace only does nothing: no   *)
(* command runs, nothing is reported, the location is as it was and the    *)
(* session is ACTIVE, so that the next prompt shows the same path.         *)
(***************************************************************************)
C20_BlankLine ==
    (/\ prompt # <<>>
     /\ \A i \in 1..Len(command_line) : command_line[i] \in {" ", "\t"}
     /\ outcome \notin {"eof", "interrupt"})
        => /\ command_line = <<>>
           /\ outcome = "silent"
           /\ report = NoReport
           /\ Unchanged
           /\ Session = "ACTIVE"
           /\ exc = "none"
           /\ f = "open"

C20_Witness ==
    /\ prompt = NameOf(<<nA>>)
    /\ command_line = <<>>
    /\ outcome = "silent"
    /\ current_group = <<nA>>
    /\ pc = "loop"

====
